---- MODULE Spec2Model ----
(***************************************************************************)
(* Model of the minimalist text editor (src/src/*.js and the entry-point   *)
(* script src/unnamed/part_001).                                           *)
(*                                                                         *)
(* The editor's HTML (innerHTML of #editor) is a sequence of tokens: text  *)
(* characters, character references, tags and <br> elements.  IndexedDB is *)
(* a set of records with key path "id" and a FIFO queue of requests in     *)
(* flight.  Timers are the browser's timer table: setTimeout adds an       *)
(* entry, clearTimeout removes it, time advances up to the next deadline   *)
(* and a timer whose time is up runs before any more time passes; the     *)
(* user's events happen between deadlines, not at the instant one is due.  *)
(* The editor's initial state is the state once Editor.init has completed, *)
(* with the input and blur listeners of setupAutoSave registered.          *)
(*                                                                         *)
(* Cloud sync (cloud.js, pkce.js): sessionStorage is a function from keys  *)
(* to values, the query parameters of the URL are a record, a page load    *)
(* runs the CloudSync constructor, and the digest of generatePKCE and the  *)
(* token request complete in steps of their own.  The editor, the export   *)
(* and the cloud sync are checked under specifications of their own.       *)
(***************************************************************************)
EXTENDS Integers, Sequences, FiniteSets, TLC

VARIABLES
    content,            \* editorEl.innerHTML, a sequence of tokens
    stats,              \* the status bar's line / word / char counts
    store,              \* the 'documents' object store: a set of records
    dbQueue,            \* IndexedDB requests in flight, oldest first
    timers,             \* pending setTimeout entries
    saveDebounceTimer,  \* Editor.saveDebounceTimer (timer id, 0 = null)
    typingTimer,        \* Editor.typingTimer (timer id, 0 = null)
    isTyping,           \* Editor.isTyping
    typingClass,        \* editorEl.classList contains 'typing'
    demoListener,       \* the once-listener of showTypewriterDemo
    saveStatus,         \* #save-status: [text, cls]
    alertBox,           \* last alert() shown: [msg, n], n flips on every alert
    download,           \* text handed to the last download, or NoFile
    eventsLeft,         \* events (input, blur, clicks) the user still makes
    sinceInput,         \* history: ms since the last input event (capped)
    unsavedFor,         \* history: ms since the oldest input not yet saved (capped)
    dirty,              \* history: an input happened and no save was issued since
    lastDone,           \* history: the last Storage.save / clear that completed
    failedPending,      \* history: a save failed and no input / blur came since
    firedSinceInput,    \* history: timer-triggered saves since the last input
    burstLen,           \* history: inputs of the current burst (gaps < the delay)
    pendingInput,       \* history: the last input is not yet in a stored save
    seen,               \* history: the HTML the editor held since the last input
    last,               \* history: the handler that ran last
    confirmed           \* history: the last New / Delete / Clear confirmed, with the
                        \* editor's content then; <<>> after input or blur, or when
                        \* an earlier clear was still in flight

VARIABLES
    configured,         \* isOAuthConfigured(): [google, dropbox]
    session,            \* sessionStorage: key -> value, Null when absent
    googleToken,        \* CloudSync.googleToken
    googleRefreshToken, \* CloudSync.googleRefreshToken
    dropboxToken,       \* CloudSync.dropboxToken
    cloudUI,            \* the cloud dialog: per provider, what updateUI set
    url,                \* the query parameters of window.location
    pkce,               \* generatePKCE calls awaiting the digest
    requests,           \* token requests awaiting their response
    redirect,           \* the navigation started by window.location.href
    cloudEventsLeft,    \* page loads and clicks still to come
    loadUrl,            \* history: the query parameters the page was loaded with
    exchangeStarted,    \* history: the exchanges the callback handler called
    requestsSent,       \* history: token requests sent since the page load
    lastConnect,        \* history: the verifier and challenge of the last connect
    tokensAtLoad,       \* history: the sessionStorage tokens before the page load
    uploads,            \* upload requests awaiting their response
    uploadsSent,        \* history: upload requests sent since the page load
    syncReturned        \* history: what the last finished sync call returned

cloudVars == <<configured, session, googleToken, googleRefreshToken, dropboxToken, cloudUI,
               url, pkce, requests, redirect, cloudEventsLeft, loadUrl, exchangeStarted,
               requestsSent, lastConnect, tokensAtLoad, uploads, uploadsSent, syncReturned>>

syncVars == <<uploads, uploadsSent, syncReturned>>

VARIABLES
    dataTheme,          \* data-theme of .app-container
    rootDark,           \* documentElement.classList contains 'dark'
    lsTheme,            \* localStorage 'theme', "null" when absent
    themeSelect,        \* value of the #setting-theme control
    statisticsChecked,  \* #setting-statistics checked
    controls,           \* values of the other seven settings controls
    prevSettings,       \* history: the 'editorSettings' item before the last settings event
    statsDisplay,       \* style.display of #status-stats
    editorSettings,     \* localStorage 'editorSettings': <<>> or <<record>>
    themeEventsLeft,    \* key presses, changes and reloads still to come
    chosenTheme         \* history: the theme the user chose last, "null" if none

themeVars == <<dataTheme, rootDark, lsTheme, themeSelect, statisticsChecked, controls,
               prevSettings, statsDisplay,
               editorSettings, themeEventsLeft, chosenTheme>>

edVars == <<content, stats, store, dbQueue, timers, saveDebounceTimer, typingTimer,
            isTyping, typingClass, demoListener, saveStatus, alertBox, download,
            eventsLeft, sinceInput, unsavedFor, dirty, lastDone, failedPending,
            firedSinceInput, burstLen, pendingInput, seen, last, confirmed>>

vars == <<edVars, cloudVars, themeVars>>

-----------------------------------------------------------------------------
(* Bounds and program constants *)

MaxEvents == 2
MaxInFlight == 2
MaxTimers == 4
MaxHtmlLen == 3
MaxCloudEvents == 4
MaxThemeEvents == 5

SaveDebounceDelay == 500
TypingDelay == 1000
StatusDelay == 2000
DemoDelay == 1000
RevokeDelay == 100

\* the time grid: time advances by one of these, or up to the next deadline
Durations == {250}
ClockCap == 2 * SaveDebounceDelay

NoFile == <<"no file">>

-----------------------------------------------------------------------------
(* HTML tokens *)

TextTokens == {"a", "b"}
DemoToken == "Build awesome apps"
EntityTokens == {"&amp;"}
BrPlain == {"<br>", "<br/>"}
BrAttr == {"<br class=x>"}
BlockTags == {"<div>", "</div>"}
Tokens == TextTokens \cup EntityTokens \cup BrPlain \cup BrAttr \cup BlockTags

DemoHtml == <<DemoToken>>
EditorDocs == { <<"a">>, <<"a", "<br>", "b">> }

IsTag(t) == t \in BrPlain \cup BrAttr \cup BlockTags

\* innerHTML is a serialisation: every <div> is closed, in order
RECURSIVE OpenDivs(_, _)
OpenDivs(html, depth) ==
    IF html = <<>> THEN depth
    ELSE IF depth < 0 THEN depth
    ELSE OpenDivs(Tail(html), depth + (IF Head(html) = "<div>" THEN 1
                                       ELSE IF Head(html) = "</div>" THEN -1 ELSE 0))

WellFormed(html) == OpenDivs(html, 0) = 0

HtmlDocs ==
    { html \in UNION { [1..n -> Tokens] : n \in 0..MaxHtmlLen } : WellFormed(html) }

\* what the browser writes for two lines typed with Enter between them
ParagraphDocs ==
    { <<"a", "<div>", "b", "</div>">>,
      <<"<div>", "a", "</div>", "<div>", "b", "</div>">> }

Range(seq) == { seq[i] : i \in 1..Len(seq) }

RECURSIVE Concat(_)
Concat(seqs) == IF seqs = <<>> THEN <<>> ELSE Head(seqs) \o Concat(Tail(seqs))

Min(a, b) == IF a <= b THEN a ELSE b

-----------------------------------------------------------------------------
(* ui.js: the status bar *)

\* editorEl.innerText: the rendered text, one element per character; a <br>
\* and the end of a block are rendered as a line break
InnerTextOf(t) ==
    IF t \in BrPlain \cup BrAttr \/ t = "</div>" THEN <<"\n">>
    ELSE IF t = "&amp;" THEN <<"&">>
    ELSE IF IsTag(t) THEN <<>>
    ELSE <<t>>

getTextContent(html) == Concat([i \in 1..Len(html) |-> InnerTextOf(html[i])])

IsBlankText(text) == \A i \in 1..Len(text) : text[i] = "\n"

countLines(text) ==
    IF IsBlankText(text) THEN 1
    ELSE Cardinality({ i \in 1..Len(text) : text[i] = "\n" }) + 1

\* a word starts at every non-whitespace character that follows whitespace
\* or the start of the text
countWords(text) ==
    IF IsBlankText(text) THEN 0
    ELSE Cardinality({ i \in 1..Len(text) :
            text[i] # "\n" /\ (i = 1 \/ text[i - 1] = "\n") })

countCharacters(text) == Len(text)

updateStats(text) ==
    [lines |-> countLines(text), words |-> countWords(text),
     chars |-> countCharacters(text)]

-----------------------------------------------------------------------------
(* storage.js: the object store 'documents', keyPath 'id' *)

DocKey == "current-document"

\* IDBObjectStore.add in the place of put: a record whose key exists stays
PutAdd(s, rec) == IF \E r \in s : r.id = rec.id THEN s ELSE s \cup {rec}

\* IDBObjectStore.put: the record replaces the one with the same key
Put(s, rec) == { r \in s : r.id # rec.id } \cup {rec}

\* IDBObjectStore.get
Get(s, key) == { r \in s : r.id = key }

\* a Storage.save that keys the record by the document it holds
SaveRecordOwnKey(c) ==
    [id |-> IF Len(c) > 1 THEN "document-2" ELSE DocKey, content |-> c]

\* the record Storage.save writes (updatedAt, which nothing reads, is left out)
SaveRecord(c) == [id |-> DocKey, content |-> c]

StorageSave(s, c) == Put(s, SaveRecord(c))

StorageLoad(s) ==
    LET result == Get(s, DocKey)
    IN  IF result = {} THEN <<>> ELSE (CHOOSE r \in result : TRUE).content

StorageClear(s) == {}

-----------------------------------------------------------------------------
(* the browser's timers *)

TimerIds(ts) == { t.id : t \in ts }

\* a timer id never handed out to a live timer or still held in a field
FreshId(ts, held) ==
    CHOOSE i \in 1..(MaxTimers + 4) :
        /\ i \notin TimerIds(ts) \cup held
        /\ \A j \in 1..(i - 1) : j \in TimerIds(ts) \cup held

SetTimeout(ts, id, kind, delay) == ts \cup {[id |-> id, kind |-> kind, left |-> delay]}

ClearTimeout(ts, id) == { t \in ts : t.id # id }

Due(ts) == { t \in ts : t.left = 0 }

RECURSIVE MinLeft(_)
MinLeft(ts) ==
    IF ts = {} THEN ClockCap
    ELSE LET t == CHOOSE x \in ts : TRUE
         IN  Min(t.left, MinLeft(ts \ {t}))

SaveTimers(ts) == { t \in ts : t.kind = "save" }

-----------------------------------------------------------------------------
(* export.js *)

\* a replace whose pattern matches no <br>
BrReplaceNone(html) == html

\* html.replace(/<br\s*\/?>/gi, '\n'): only a <br> written without attributes
BrReplace(html) ==
    [i \in 1..Len(html) |-> IF html[i] \in BrPlain THEN "\n" ELSE html[i]]

\* div.innerHTML = preprocessed; div.textContent: the parser drops every tag
\* and decodes character references
TextContentOf(t) ==
    IF t = "&amp;" THEN <<"&">>
    ELSE IF IsTag(t) THEN <<>>
    ELSE <<t>>

textContent(html) == Concat([i \in 1..Len(html) |-> TextContentOf(html[i])])

stripHTML(html) == textContent(BrReplace(html))

-----------------------------------------------------------------------------
(* ui.js: updateSaveStatus(message, success): the label, and for a success
   message a timer that clears the label StatusDelay later *)

StatusLabel(message, success) ==
    [text |-> message, cls |-> IF success THEN "status-item success" ELSE "status-item error"]

ClearedLabel == [text |-> "", cls |-> "status-item"]

StatusTimers(ts, message, success) ==
    IF success /\ message # ""
    THEN SetTimeout(ts, FreshId(ts, {saveDebounceTimer, typingTimer}), "status", StatusDelay)
    ELSE ts

NoAlert == [msg |-> "", n |-> 0]
Alert(box, msg) == [msg |-> msg, n |-> 1 - box.n]

\* the history entry of a handler
Did(act) == [act |-> act, afterFailure |-> failedPending, err |-> ""]

typingVars == <<typingTimer, isTyping, typingClass>>
inputHist == <<sinceInput, unsavedFor, firedSinceInput, burstLen>>

-----------------------------------------------------------------------------
(* editor.js *)

\* what the user's edit can turn the editor's HTML into
InputDocs == EditorDocs \cup (IF content = DemoHtml THEN {DemoHtml \o <<"a">>} ELSE {})

\* the debounced save started with the typing indicator's delay
SaveTimerDelayTyping == TypingDelay

\* setTimeout(() => this.save(), this.saveDebounceDelay)
SaveTimerDelay == SaveDebounceDelay

\* a handleInput that starts the save timer without clearing the pending one
HandleInputNoClear(c) ==
    /\ eventsLeft > 0
    /\ Due(timers) = {}
    /\ Cardinality(timers) + 2 <= MaxTimers + 1
    /\ LET t1 == ClearTimeout(timers, typingTimer)
           id1 == FreshId(t1, {saveDebounceTimer})
           t2 == SetTimeout(t1, id1, "typing", TypingDelay)
           id2 == FreshId(t2, {id1})
           t4 == SetTimeout(t2, id2, "save", SaveDebounceDelay)
       IN  /\ stats' = updateStats(getTextContent(c))
           /\ isTyping' = TRUE
           /\ typingClass' = (IF ~isTyping THEN TRUE ELSE typingClass)
           /\ typingTimer' = id1
           /\ saveDebounceTimer' = id2
           /\ timers' = t4
    /\ content' = c
    /\ UNCHANGED demoListener
    /\ eventsLeft' = eventsLeft - 1
    /\ sinceInput' = 0
    /\ unsavedFor' = (IF dirty THEN unsavedFor ELSE 0)
    /\ dirty' = TRUE
    /\ failedPending' = FALSE
    /\ firedSinceInput' = 0
    /\ burstLen' = (IF SaveTimers(timers) # {} THEN burstLen + 1 ELSE 1)
    /\ pendingInput' = TRUE
    /\ seen' = {content'}
    /\ dbQueue' = [i \in 1..Len(dbQueue) |-> [dbQueue[i] EXCEPT !.covers = FALSE]]
    /\ last' = Did("Input")
    /\ UNCHANGED <<cloudVars, themeVars>>
    /\ confirmed' = <<>>
    /\ UNCHANGED <<store, saveStatus, alertBox, download, lastDone>>

\* the 'input' listeners: Editor.handleInput (updateStats,
\* handleTypewriterEffect, the debounced save), then the once-listener of
\* showTypewriterDemo if it has been added
HandleInput(c) ==
    /\ eventsLeft > 0
    /\ Due(timers) = {}
    /\ Cardinality(timers \ {t \in timers : t.id \in {typingTimer, saveDebounceTimer}}) + 2
          <= MaxTimers
    /\ LET t1 == ClearTimeout(timers, typingTimer)
           id1 == FreshId(t1, {saveDebounceTimer})
           t2 == SetTimeout(t1, id1, "typing", TypingDelay)
           t3 == ClearTimeout(t2, saveDebounceTimer)
           id2 == FreshId(t3, {id1})
           t4 == SetTimeout(t3, id2, "save", SaveTimerDelay)
       IN  /\ stats' = updateStats(getTextContent(c))
           /\ isTyping' = TRUE
           /\ typingClass' = (IF ~isTyping THEN TRUE ELSE typingClass)
           /\ typingTimer' = id1
           /\ saveDebounceTimer' = id2
           /\ timers' = t4
    /\ IF demoListener = "armed"
       THEN /\ content' = (IF DemoToken \in Range(c) THEN <<>> ELSE c)
            /\ demoListener' = "done"
       ELSE /\ content' = c
            /\ UNCHANGED demoListener
    /\ eventsLeft' = eventsLeft - 1
    /\ sinceInput' = 0
    /\ unsavedFor' = (IF dirty THEN unsavedFor ELSE 0)
    /\ dirty' = TRUE
    /\ failedPending' = FALSE
    /\ firedSinceInput' = 0
    /\ burstLen' = (IF SaveTimers(timers) # {} THEN burstLen + 1 ELSE 1)
    /\ pendingInput' = TRUE
    /\ seen' = {content'}
    /\ dbQueue' = [i \in 1..Len(dbQueue) |-> [dbQueue[i] EXCEPT !.covers = FALSE]]
    /\ last' = Did("Input")
    /\ UNCHANGED <<cloudVars, themeVars>>
    /\ confirmed' = <<>>
    /\ UNCHANGED <<store, saveStatus, alertBox, download, lastDone>>

\* Editor.save up to its await: read the HTML and call Storage.save, which
\* queues the put
EditorSave ==
    /\ dbQueue' = Append(dbQueue, [op |-> "save", content |-> content, covers |-> TRUE])
    /\ dirty' = FALSE
    /\ UNCHANGED <<content, stats, store, saveStatus, alertBox, download, demoListener,
                   typingVars, saveDebounceTimer, lastDone, pendingInput, seen>>

\* the 'blur' listener of setupAutoSave
HandleBlur ==
    /\ eventsLeft > 0
    /\ Due(timers) = {}
    /\ Len(dbQueue) < MaxInFlight
    /\ EditorSave
    /\ eventsLeft' = eventsLeft - 1
    /\ failedPending' = FALSE
    /\ last' = Did("Blur")
    /\ UNCHANGED <<cloudVars, themeVars>>
    /\ confirmed' = <<>>
    /\ UNCHANGED <<timers, inputHist>>

\* a timer callback that does not call save
FireSaveTimerNoSave ==
    \E t \in Due(timers) :
        /\ t.kind = "save"
        /\ timers' = timers \ {t}
        /\ firedSinceInput' = firedSinceInput + 1
        /\ last' = Did("SaveTimer")
        /\ UNCHANGED <<cloudVars, themeVars, confirmed>>
        /\ UNCHANGED <<content, stats, store, dbQueue, dirty, saveStatus, alertBox, download,
                       demoListener, typingVars, saveDebounceTimer, lastDone, pendingInput,
                       seen, eventsLeft, sinceInput, unsavedFor, burstLen, failedPending>>

\* the debounce timer's callback
FireSaveTimer ==
    \E t \in Due(timers) :
        /\ t.kind = "save"
        /\ Len(dbQueue) < MaxInFlight
        /\ timers' = timers \ {t}
        /\ EditorSave
        /\ firedSinceInput' = firedSinceInput + 1
        /\ last' = Did("SaveTimer")
        /\ UNCHANGED <<cloudVars, themeVars, confirmed>>
        /\ UNCHANGED <<eventsLeft, sinceInput, unsavedFor, burstLen, failedPending>>

\* what every timer callback but the debounce timer's leaves alone
TimerFrame ==
    UNCHANGED <<content, stats, store, dbQueue, saveDebounceTimer, alertBox, download,
                eventsLeft, inputHist, dirty, lastDone, failedPending, pendingInput, seen>>

\* a callback that resets isTyping and leaves the class on the editor
FireTypingTimerKeepClass ==
    \E t \in Due(timers) :
        /\ t.kind = "typing"
        /\ timers' = timers \ {t}
        /\ isTyping' = FALSE
        /\ last' = Did("TypingTimer")
        /\ UNCHANGED <<cloudVars, themeVars, confirmed>>
        /\ TimerFrame
        /\ UNCHANGED <<typingTimer, typingClass, demoListener, saveStatus>>

\* the typing timer's callback of handleTypewriterEffect
FireTypingTimer ==
    \E t \in Due(timers) :
        /\ t.kind = "typing"
        /\ timers' = timers \ {t}
        /\ isTyping' = FALSE
        /\ typingClass' = FALSE
        /\ last' = Did("TypingTimer")
        /\ UNCHANGED <<cloudVars, themeVars, confirmed>>
        /\ TimerFrame
        /\ UNCHANGED <<typingTimer, demoListener, saveStatus>>

\* the timer of showTypewriterDemo: it adds the once-listener
FireDemoTimer ==
    \E t \in Due(timers) :
        /\ t.kind = "demo"
        /\ timers' = timers \ {t}
        /\ demoListener' = "armed"
        /\ last' = Did("DemoTimer")
        /\ UNCHANGED <<cloudVars, themeVars, confirmed>>
        /\ TimerFrame
        /\ UNCHANGED <<typingVars, saveStatus>>

\* the timer of updateSaveStatus: it clears the label
FireStatusTimer ==
    \E t \in Due(timers) :
        /\ t.kind = "status"
        /\ timers' = timers \ {t}
        /\ saveStatus' = ClearedLabel
        /\ last' = Did("StatusTimer")
        /\ UNCHANGED <<cloudVars, themeVars, confirmed>>
        /\ TimerFrame
        /\ UNCHANGED <<typingVars, demoListener>>

\* the timer of Export.downloadBlob: it revokes the object URL
FireRevokeTimer ==
    \E t \in Due(timers) :
        /\ t.kind = "revoke"
        /\ timers' = timers \ {t}
        /\ last' = Did("RevokeTimer")
        /\ UNCHANGED <<cloudVars, themeVars, confirmed>>
        /\ TimerFrame
        /\ UNCHANGED <<typingVars, demoListener, saveStatus>>

\* time passes: by d, or up to the next deadline when that comes first; no
\* time passes while a timer is due
Advance(d) ==
    /\ Due(timers) = {}
    /\ LET e == Min(d, MinLeft(timers))
       IN  /\ timers' = { [t EXCEPT !.left = t.left - e] : t \in timers }
           /\ sinceInput' = Min(sinceInput + e, ClockCap)
           /\ unsavedFor' = (IF dirty THEN Min(unsavedFor + e, ClockCap) ELSE unsavedFor)
    /\ last' = Did("Advance")
    /\ UNCHANGED <<cloudVars, themeVars, confirmed>>
    /\ UNCHANGED <<content, stats, store, dbQueue, saveDebounceTimer, typingVars,
                   demoListener, saveStatus, alertBox, download, eventsLeft, dirty, lastDone,
                   failedPending, firedSinceInput, burstLen, pendingInput, seen>>

-----------------------------------------------------------------------------
(* IndexedDB completes the oldest request; the promise's continuation runs *)

StorageErrors == {"QuotaExceededError", "UnknownError"}

\* what the completion of a request leaves alone
DbFrame ==
    UNCHANGED <<saveDebounceTimer, typingVars, demoListener, download, eventsLeft,
                inputHist, dirty>>

\* Storage.save resolves; Editor.save goes on after its await
SaveSucceeds ==
    /\ dbQueue # <<>>
    /\ Head(dbQueue).op = "save"
    /\ Cardinality(timers) < MaxTimers
    /\ store' = StorageSave(store, Head(dbQueue).content)
    /\ dbQueue' = Tail(dbQueue)
    /\ saveStatus' = StatusLabel("Saved", TRUE)
    /\ timers' = StatusTimers(timers, "Saved", TRUE)
    /\ lastDone' = [kind |-> "save", content |-> Head(dbQueue).content]
    /\ pendingInput' = (IF Head(dbQueue).covers /\ Head(dbQueue).content \in seen
                        THEN FALSE ELSE pendingInput)
    /\ last' = Did("SaveSucceeds")
    /\ UNCHANGED <<cloudVars, themeVars, confirmed>>
    /\ DbFrame
    /\ UNCHANGED <<content, stats, alertBox, failedPending, seen>>

\* a catch block that calls save again
SaveFailsRetry(err) ==
    /\ dbQueue # <<>>
    /\ Head(dbQueue).op = "save"
    /\ dbQueue' = Append(Tail(dbQueue), [op |-> "save", content |-> content, covers |-> TRUE])
    /\ saveStatus' = StatusLabel("Save failed", FALSE)
    /\ timers' = StatusTimers(timers, "Save failed", FALSE)
    /\ alertBox' = (IF err = "QuotaExceededError"
                    THEN Alert(alertBox, "Storage quota exceeded. Please clear some space.")
                    ELSE alertBox)
    /\ failedPending' = TRUE
    /\ last' = [Did("SaveFails") EXCEPT !.err = err]
    /\ UNCHANGED <<cloudVars, themeVars, confirmed>>
    /\ DbFrame
    /\ UNCHANGED <<content, stats, store, lastDone, pendingInput, seen>>

\* Storage.save rejects; the catch block of Editor.save runs
SaveFails(err) ==
    /\ dbQueue # <<>>
    /\ Head(dbQueue).op = "save"
    /\ dbQueue' = Tail(dbQueue)
    /\ saveStatus' = StatusLabel("Save failed", FALSE)
    /\ timers' = StatusTimers(timers, "Save failed", FALSE)
    /\ alertBox' = (IF err = "QuotaExceededError"
                    THEN Alert(alertBox, "Storage quota exceeded. Please clear some space.")
                    ELSE alertBox)
    /\ failedPending' = TRUE
    /\ last' = [Did("SaveFails") EXCEPT !.err = err]
    /\ UNCHANGED <<cloudVars, themeVars, confirmed>>
    /\ DbFrame
    /\ UNCHANGED <<content, stats, store, lastDone, pendingInput, seen>>

\* Editor.setContent
setContent(c) ==
    /\ content' = c
    /\ stats' = updateStats(getTextContent(c))
    /\ seen' = seen \cup {c}

\* Storage.clear resolves; the then-callback of the menu handler runs
ClearSucceeds ==
    /\ dbQueue # <<>>
    /\ Head(dbQueue).op = "clear"
    /\ Cardinality(timers) < MaxTimers
    /\ store' = StorageClear(store)
    /\ dbQueue' = Tail(dbQueue)
    /\ setContent(<<>>)
    /\ saveStatus' = StatusLabel("All data cleared", TRUE)
    /\ timers' = StatusTimers(timers, "All data cleared", TRUE)
    /\ lastDone' = [kind |-> "clear", content |-> <<>>]
    /\ last' = Did("ClearSucceeds")
    /\ UNCHANGED <<cloudVars, themeVars>>
    /\ confirmed' = (IF confirmed # <<>> /\ confirmed[1].op = "clear"
                      THEN <<[confirmed[1] EXCEPT !.op = "cleared"]>>
                      ELSE confirmed)
    /\ DbFrame
    /\ UNCHANGED <<alertBox, failedPending, pendingInput>>

\* Storage.clear rejects; nothing handles the rejection
ClearFails ==
    /\ dbQueue # <<>>
    /\ Head(dbQueue).op = "clear"
    /\ dbQueue' = Tail(dbQueue)
    /\ last' = Did("ClearFails")
    /\ UNCHANGED <<cloudVars, themeVars, confirmed>>
    /\ DbFrame
    /\ UNCHANGED <<content, stats, store, timers, saveStatus, alertBox, lastDone,
                   failedPending, pendingInput, seen>>

-----------------------------------------------------------------------------
(* the entry-point script: buttons and menu items (the user confirms) *)

\* what a click leaves alone
\* Editor.loadContent: what a page load puts into the editor
loadContent(s) == IF StorageLoad(s) # <<>> THEN StorageLoad(s) ELSE DemoHtml

\* the history entry of a confirmed dialog
Confirm(op) ==
    IF \E i \in 1..Len(dbQueue) : dbQueue[i].op = "clear"
    THEN <<>>
    ELSE <<[op |-> op, content |-> content]>>

ClickFrame ==
    UNCHANGED <<saveDebounceTimer, typingVars, demoListener, alertBox, inputHist, dirty,
                lastDone, failedPending, pendingInput>>

\* newBtn: setContent(''), then the status
NewDocument ==
    /\ eventsLeft > 0
    /\ Due(timers) = {}
    /\ Cardinality(timers) < MaxTimers
    /\ setContent(<<>>)
    /\ saveStatus' = StatusLabel("New document created", TRUE)
    /\ timers' = StatusTimers(timers, "New document created", TRUE)
    /\ eventsLeft' = eventsLeft - 1
    /\ last' = Did("NewDocument")
    /\ UNCHANGED <<cloudVars, themeVars>>
    /\ confirmed' = Confirm("new")
    /\ ClickFrame
    /\ UNCHANGED <<store, dbQueue, download>>

\* menuDelete: setContent(''), then the status
DeleteDocument ==
    /\ eventsLeft > 0
    /\ Due(timers) = {}
    /\ Cardinality(timers) < MaxTimers
    /\ setContent(<<>>)
    /\ saveStatus' = StatusLabel("Document deleted", TRUE)
    /\ timers' = StatusTimers(timers, "Document deleted", TRUE)
    /\ eventsLeft' = eventsLeft - 1
    /\ last' = Did("DeleteDocument")
    /\ UNCHANGED <<cloudVars, themeVars>>
    /\ confirmed' = Confirm("delete")
    /\ ClickFrame
    /\ UNCHANGED <<store, dbQueue, download>>

\* menuClearData: Storage.clear is called; its then-callback is ClearSucceeds
ClearData ==
    /\ eventsLeft > 0
    /\ Due(timers) = {}
    /\ Len(dbQueue) < MaxInFlight
    /\ dbQueue' = Append(dbQueue, [op |-> "clear", content |-> <<>>, covers |-> FALSE])
    /\ eventsLeft' = eventsLeft - 1
    /\ last' = Did("ClearData")
    /\ UNCHANGED <<cloudVars, themeVars>>
    /\ confirmed' = Confirm("clear")
    /\ ClickFrame
    /\ UNCHANGED <<content, stats, store, timers, saveStatus, download, seen>>

\* Export.exportAsTXT: the text of the blob handed to downloadBlob
exportAsTXT(html) == stripHTML(html)

\* exportTxt: getHTMLContent, exportAsTXT (downloadBlob starts the timer that
\* revokes the URL), then the status
ExportTxt ==
    /\ eventsLeft > 0
    /\ Due(timers) = {}
    /\ Cardinality(timers) + 2 <= MaxTimers
    /\ download' = exportAsTXT(content)
    /\ saveStatus' = StatusLabel("Exported as TXT", TRUE)
    /\ LET t1 == SetTimeout(timers, FreshId(timers, {saveDebounceTimer, typingTimer}),
                            "revoke", RevokeDelay)
       IN  timers' = StatusTimers(t1, "Exported as TXT", TRUE)
    /\ eventsLeft' = eventsLeft - 1
    /\ last' = Did("ExportTxt")
    /\ UNCHANGED <<cloudVars, themeVars, confirmed>>
    /\ ClickFrame
    /\ UNCHANGED <<content, stats, store, dbQueue, seen>>

-----------------------------------------------------------------------------
(* pkce.js and the OAuth configuration *)

Null == "null"
Providers == {"google", "dropbox"}
Verifiers == {"v1", "v2"}
Codes == {"c1"}
AccessTokens == {"t1", "t2"}
RefreshTokens == {"r1"}
CallbackStates == {Null, "google", "dropbox", "other"}
CallbackErrors == {Null, "access_denied"}

VerifierKey == "oauth_code_verifier"
AccessKey(p) == IF p = "google" THEN "google_access_token" ELSE "dropbox_access_token"
RefreshKey == "google_refresh_token"
SessionKeys == {VerifierKey, AccessKey("google"), AccessKey("dropbox"), RefreshKey}

\* a challenge computed from a verifier generated a second time
generateCodeChallengeOfNew(verifier) ==
    "S256(" \o (CHOOSE v \in Verifiers : v # verifier) \o ")"

\* generateCodeChallenge: base64url(SHA-256(verifier)), one value per verifier
generateCodeChallenge(verifier) == "S256(" \o verifier \o ")"

\* storeCodeVerifier
storeCodeVerifier(ss, verifier) == [ss EXCEPT ![VerifierKey] = verifier]

\* a getCodeVerifier that leaves the item in sessionStorage
getCodeVerifierKeep(ss) == [verifier |-> ss[VerifierKey], session |-> ss]

\* getCodeVerifier: the value read, and the storage with the item removed
getCodeVerifier(ss) ==
    [verifier |-> ss[VerifierKey],
     session |-> IF ss[VerifierKey] # Null THEN [ss EXCEPT ![VerifierKey] = Null] ELSE ss]

-----------------------------------------------------------------------------
(* cloud.js *)

NoParams == [code |-> Null, state |-> Null, error |-> Null]

\* a cleanup that deletes code and state and forgets the error parameter
cleanupOAuthCallbackCodeOnly(u) == [u EXCEPT !.code = Null, !.state = Null]

\* CloudSync.cleanupOAuthCallback: replaceState with the bare pathname
cleanupOAuthCallback(u) == NoParams

\* one provider's half of CloudSync.updateUI
ProviderUI(token) ==
    IF token # Null
    THEN [connect |-> "Disconnect", sync |-> "inline-block", status |-> "Connected",
          cls |-> "cloud-status connected"]
    ELSE [connect |-> "Connect", sync |-> "none", status |-> "Not connected",
          cls |-> "cloud-status"]

\* CloudSync.updateUI
updateUI(gToken, dToken) == [google |-> ProviderUI(gToken), dropbox |-> ProviderUI(dToken)]

\* a callback handler whose last branch takes every other state for Dropbox
ExchangeForStateElse(state) == IF state = "google" THEN "google" ELSE "dropbox"

\* CloudSync.handleOAuthCallback: the exchange the state parameter selects
ExchangeForState(state) ==
    IF state = "google" THEN "google"
    ELSE IF state = "dropbox" THEN "dropbox"
    ELSE "none"

ProviderName(p) == IF p = "google" THEN "Google Drive" ELSE "Dropbox"

TokenOf(p) == IF p = "google" THEN googleToken ELSE dropboxToken

SessionTokens(ss) == [k \in SessionKeys \ {VerifierKey} |-> ss[k]]

\* what the cloud handlers leave alone in the editor
EditorFrame ==
    UNCHANGED <<content, stats, store, dbQueue, timers, saveDebounceTimer, typingVars,
                demoListener, saveStatus, download, eventsLeft, inputHist, dirty, lastDone,
                failedPending, pendingInput, seen, confirmed, themeVars>>

\* the page is loaded with the given query parameters and the CloudSync
\* constructor runs: handleOAuthCallback (with the synchronous part of
\* exchangeGoogleToken / exchangeDropboxToken, up to its fetch), then
\* loadTokens; what the unloaded page was waiting for is gone
PageLoad(code, state, error) ==
    /\ cloudEventsLeft > 0
    /\ cloudEventsLeft' = cloudEventsLeft - 1
    /\ loadUrl' = [code |-> code, state |-> state, error |-> error]
    /\ tokensAtLoad' = SessionTokens(session)
    /\ pkce' = {}
    /\ redirect' = <<>>
    /\ LET p == ExchangeForState(state)
           got == getCodeVerifier(session)
       IN  IF error # Null
           THEN /\ alertBox' = Alert(alertBox, "OAuth error: " \o error)
                /\ url' = cleanupOAuthCallback(loadUrl')
                /\ UNCHANGED session
                /\ requests' = {}
                /\ exchangeStarted' = {}
                /\ requestsSent' = 0
           ELSE IF code # Null /\ state # Null /\ p # "none"
           THEN /\ exchangeStarted' = {p}
                /\ session' = got.session
                /\ IF got.verifier = Null
                   THEN /\ alertBox' = Alert(alertBox, "OAuth session expired. Please try again.")
                        /\ url' = cleanupOAuthCallback(loadUrl')
                        /\ requests' = {}
                        /\ requestsSent' = 0
                   ELSE /\ requests' = {[provider |-> p, code |-> code,
                                         verifier |-> got.verifier]}
                        /\ requestsSent' = 1
                        /\ url' = loadUrl'
                        /\ UNCHANGED alertBox
           ELSE /\ url' = loadUrl'
                /\ requests' = {}
                /\ exchangeStarted' = {}
                /\ requestsSent' = 0
                /\ UNCHANGED <<session, alertBox>>
    /\ googleToken' = session'[AccessKey("google")]
    /\ googleRefreshToken' = session'[RefreshKey]
    /\ dropboxToken' = session'[AccessKey("dropbox")]
    /\ cloudUI' = updateUI(googleToken', dropboxToken')
    /\ last' = Did("PageLoad")
    /\ uploads' = {}
    /\ uploadsSent' = 0
    /\ syncReturned' = <<>>
    /\ UNCHANGED <<configured, lastConnect>>
    /\ EditorFrame

\* a disconnect that forgets the sessionStorage items
DisconnectMemoryOnly(p) ==
    /\ cloudEventsLeft > 0
    /\ TokenOf(p) # Null
    /\ cloudEventsLeft' = cloudEventsLeft - 1
    /\ IF p = "google"
       THEN /\ googleToken' = Null
            /\ googleRefreshToken' = Null
            /\ UNCHANGED dropboxToken
       ELSE /\ dropboxToken' = Null
            /\ UNCHANGED <<googleToken, googleRefreshToken>>
    /\ cloudUI' = updateUI(googleToken', dropboxToken')
    /\ last' = Did("Disconnect")
    /\ UNCHANGED <<syncVars, configured, session, url, pkce, requests, redirect, loadUrl, exchangeStarted,
                   requestsSent, lastConnect, tokensAtLoad, alertBox>>
    /\ EditorFrame

\* a disconnect of Google that leaves the refresh token in sessionStorage
DisconnectAccessOnly(p) ==
    /\ cloudEventsLeft > 0
    /\ TokenOf(p) # Null
    /\ cloudEventsLeft' = cloudEventsLeft - 1
    /\ IF p = "google"
       THEN /\ session' = [session EXCEPT ![AccessKey("google")] = Null]
            /\ googleToken' = Null
            /\ googleRefreshToken' = Null
            /\ UNCHANGED dropboxToken
       ELSE /\ session' = [session EXCEPT ![AccessKey("dropbox")] = Null]
            /\ dropboxToken' = Null
            /\ UNCHANGED <<googleToken, googleRefreshToken>>
    /\ cloudUI' = updateUI(googleToken', dropboxToken')
    /\ last' = Did("Disconnect")
    /\ UNCHANGED <<syncVars, configured, url, pkce, requests, redirect, loadUrl, exchangeStarted,
                   requestsSent, lastConnect, tokensAtLoad, alertBox>>
    /\ EditorFrame

\* connectGoogle / connectDropbox with a token: disconnect
Disconnect(p) ==
    /\ cloudEventsLeft > 0
    /\ TokenOf(p) # Null
    /\ cloudEventsLeft' = cloudEventsLeft - 1
    /\ IF p = "google"
       THEN /\ session' = [session EXCEPT ![AccessKey("google")] = Null, ![RefreshKey] = Null]
            /\ googleToken' = Null
            /\ googleRefreshToken' = Null
            /\ UNCHANGED dropboxToken
       ELSE /\ session' = [session EXCEPT ![AccessKey("dropbox")] = Null]
            /\ dropboxToken' = Null
            /\ UNCHANGED <<googleToken, googleRefreshToken>>
    /\ cloudUI' = updateUI(googleToken', dropboxToken')
    /\ last' = Did("Disconnect")
    /\ UNCHANGED <<syncVars, configured, url, pkce, requests, redirect, loadUrl, exchangeStarted,
                   requestsSent, lastConnect, tokensAtLoad, alertBox>>
    /\ EditorFrame

\* connectGoogle / connectDropbox without a token and without a client id:
\* the 'not configured' alert
ConnectNotConfigured(p) ==
    /\ cloudEventsLeft > 0
    /\ TokenOf(p) = Null
    /\ ~configured[p]
    /\ cloudEventsLeft' = cloudEventsLeft - 1
    /\ alertBox' = Alert(alertBox, ProviderName(p) \o " OAuth is not configured.")
    /\ last' = Did("ConnectNotConfigured")
    /\ UNCHANGED <<syncVars, configured, session, googleToken, googleRefreshToken, dropboxToken,
                   cloudUI, url, pkce, requests, redirect, loadUrl, exchangeStarted,
                   requestsSent, lastConnect, tokensAtLoad>>
    /\ EditorFrame

\* a connect that starts the PKCE flow without looking at the configuration
ConnectStartUnchecked(p, verifier) ==
    /\ cloudEventsLeft > 0
    /\ TokenOf(p) = Null
    /\ cloudEventsLeft' = cloudEventsLeft - 1
    /\ pkce' = pkce \cup {[provider |-> p, verifier |-> verifier]}
    /\ last' = Did("ConnectStart")
    /\ UNCHANGED <<syncVars, configured, session, googleToken, googleRefreshToken, dropboxToken,
                   cloudUI, url, requests, redirect, loadUrl, exchangeStarted,
                   requestsSent, lastConnect, tokensAtLoad, alertBox>>
    /\ EditorFrame

\* connectGoogle / connectDropbox up to the await of generatePKCE:
\* generateCodeVerifier has drawn the verifier, the digest is being computed
ConnectStart(p, verifier) ==
    /\ cloudEventsLeft > 0
    /\ TokenOf(p) = Null
    /\ configured[p]
    /\ cloudEventsLeft' = cloudEventsLeft - 1
    /\ pkce' = pkce \cup {[provider |-> p, verifier |-> verifier]}
    /\ last' = Did("ConnectStart")
    /\ UNCHANGED <<syncVars, configured, session, googleToken, googleRefreshToken, dropboxToken,
                   cloudUI, url, requests, redirect, loadUrl, exchangeStarted,
                   requestsSent, lastConnect, tokensAtLoad, alertBox>>
    /\ EditorFrame

\* generatePKCE resolves: storeCodeVerifier, then the redirect to the
\* provider's authorization URL with the challenge and the state
ConnectRedirect ==
    \E x \in pkce :
        LET challenge == generateCodeChallenge(x.verifier)
        IN  /\ pkce' = pkce \ {x}
            /\ session' = storeCodeVerifier(session, x.verifier)
            /\ redirect' = <<[provider |-> x.provider, challenge |-> challenge,
                              state |-> x.provider]>>
            /\ lastConnect' = <<[provider |-> x.provider, verifier |-> x.verifier,
                                 challenge |-> challenge]>>
            /\ last' = Did("ConnectRedirect")
            /\ UNCHANGED <<syncVars, configured, googleToken, googleRefreshToken, dropboxToken,
                           cloudUI, url, requests, loadUrl, exchangeStarted, requestsSent,
                           tokensAtLoad, cloudEventsLeft, alertBox>>
            /\ EditorFrame

\* generatePKCE rejects (no crypto.subtle): the catch block alerts
ConnectFails ==
    \E x \in pkce :
        /\ pkce' = pkce \ {x}
        /\ alertBox' = Alert(alertBox, "Failed to initiate " \o ProviderName(x.provider) \o " connection")
        /\ last' = Did("ConnectFails")
        /\ UNCHANGED <<syncVars, configured, session, googleToken, googleRefreshToken, dropboxToken,
                       cloudUI, url, requests, redirect, loadUrl, exchangeStarted,
                       requestsSent, lastConnect, tokensAtLoad, cloudEventsLeft>>
        /\ EditorFrame

\* the token response is ok: the tokens are kept in memory and in
\* sessionStorage (Google's refresh token only if the response has one),
\* updateUI, cleanupOAuthCallback, the success alert
TokenSucceeds(access, refresh) ==
    \E r \in requests :
        /\ requests' = requests \ {r}
        /\ IF r.provider = "google"
           THEN /\ googleToken' = access
                /\ googleRefreshToken' = refresh
                /\ session' = [session EXCEPT
                        ![AccessKey("google")] = access,
                        ![RefreshKey] = IF refresh # Null THEN refresh ELSE @]
                /\ UNCHANGED dropboxToken
           ELSE /\ dropboxToken' = access
                /\ session' = [session EXCEPT ![AccessKey("dropbox")] = access]
                /\ UNCHANGED <<googleToken, googleRefreshToken>>
        /\ cloudUI' = updateUI(googleToken', dropboxToken')
        /\ url' = cleanupOAuthCallback(url)
        /\ alertBox' = Alert(alertBox, "Successfully connected to " \o ProviderName(r.provider) \o "!")
        /\ last' = Did("TokenSucceeds")
        /\ UNCHANGED <<syncVars, configured, pkce, redirect, loadUrl, exchangeStarted, requestsSent,
                       lastConnect, tokensAtLoad, cloudEventsLeft>>
        /\ EditorFrame

\* a catch block that sends the token request again
TokenFailsRetry ==
    \E r \in requests :
        /\ requestsSent' = requestsSent + 1
        /\ alertBox' = Alert(alertBox, "Failed to connect to " \o ProviderName(r.provider))
        /\ last' = Did("TokenFails")
        /\ UNCHANGED <<syncVars, configured, session, googleToken, googleRefreshToken, dropboxToken,
                       cloudUI, pkce, redirect, loadUrl, exchangeStarted, lastConnect,
                       tokensAtLoad, cloudEventsLeft, url, requests>>
        /\ EditorFrame

\* the token response is not ok, or fetch rejects: the catch block alerts
\* and calls cleanupOAuthCallback
TokenFails ==
    \E r \in requests :
        /\ requests' = requests \ {r}
        /\ url' = cleanupOAuthCallback(url)
        /\ alertBox' = Alert(alertBox, "Failed to connect to " \o ProviderName(r.provider))
        /\ last' = Did("TokenFails")
        /\ UNCHANGED <<syncVars, configured, session, googleToken, googleRefreshToken, dropboxToken,
                       cloudUI, pkce, redirect, loadUrl, exchangeStarted, requestsSent,
                       lastConnect, tokensAtLoad, cloudEventsLeft>>
        /\ EditorFrame

\* content.replace(/<[^>]*>/g, ''): the HTML without its tags
StripTags(html) == SelectSeq(html, LAMBDA t : ~IsTag(t))

\* a sync that uploads without looking at the token
SyncClickNoToken(p) ==
    /\ cloudEventsLeft > 0
    /\ cloudEventsLeft' = cloudEventsLeft - 1
    /\ uploads' = uploads \cup {[id |-> uploadsSent + 1, provider |-> p,
                                 token |-> TokenOf(p), body |-> StripTags(content)]}
    /\ uploadsSent' = uploadsSent + 1
    /\ UNCHANGED <<alertBox, syncReturned>>
    /\ last' = Did("SyncClick")
    /\ UNCHANGED <<configured, session, googleToken, googleRefreshToken, dropboxToken,
                   cloudUI, url, pkce, requests, redirect, loadUrl, exchangeStarted,
                   requestsSent, lastConnect, tokensAtLoad>>
    /\ EditorFrame

\* the click handler of a Sync button: syncToGoogle / syncToDropbox with
\* the editor's innerHTML, up to the await of fetch
SyncClick(p) ==
    /\ cloudEventsLeft > 0
    /\ cloudEventsLeft' = cloudEventsLeft - 1
    /\ IF TokenOf(p) = Null
       THEN /\ alertBox' = Alert(alertBox, "Please connect to " \o ProviderName(p) \o " first")
            /\ syncReturned' = <<[provider |-> p, result |-> FALSE, response |-> "none"]>>
            /\ UNCHANGED <<uploads, uploadsSent>>
       ELSE /\ uploads' = uploads \cup {[id |-> uploadsSent + 1, provider |-> p,
                                         token |-> TokenOf(p), body |-> StripTags(content)]}
            /\ uploadsSent' = uploadsSent + 1
            /\ UNCHANGED <<alertBox, syncReturned>>
    /\ last' = Did("SyncClick")
    /\ UNCHANGED <<configured, session, googleToken, googleRefreshToken, dropboxToken,
                   cloudUI, url, pkce, requests, redirect, loadUrl, exchangeStarted,
                   requestsSent, lastConnect, tokensAtLoad>>
    /\ EditorFrame

UploadOutcomes == {"ok", "not ok", "network error"}

\* the upload's response arrives (or fetch rejects): the alert and the
\* value syncToGoogle / syncToDropbox returns
UploadResponds(outcome) ==
    \E u \in uploads :
        /\ uploads' = uploads \ {u}
        /\ syncReturned' = <<[provider |-> u.provider, result |-> (outcome = "ok"),
                              response |-> outcome]>>
        /\ alertBox' = (IF outcome = "ok"
                        THEN Alert(alertBox, "Successfully synced to "
                                                \o ProviderName(u.provider) \o "!")
                        ELSE Alert(alertBox, "Failed to sync to " \o ProviderName(u.provider)))
        /\ last' = Did("UploadResponds")
        /\ UNCHANGED <<configured, session, googleToken, googleRefreshToken, dropboxToken,
                       cloudUI, url, pkce, requests, redirect, cloudEventsLeft, loadUrl,
                       exchangeStarted, requestsSent, lastConnect, tokensAtLoad, uploadsSent>>
        /\ EditorFrame

\* a tab opened on the plain URL: nothing in sessionStorage, the
\* constructor has run
InitCloud(configs) ==
    /\ \E c \in configs : configured = [google |-> c[1], dropbox |-> c[2]]
    /\ session = [k \in SessionKeys |-> Null]
    /\ googleToken = Null
    /\ googleRefreshToken = Null
    /\ dropboxToken = Null
    /\ cloudUI = updateUI(Null, Null)
    /\ url = NoParams
    /\ pkce = {}
    /\ requests = {}
    /\ redirect = <<>>
    /\ cloudEventsLeft = MaxCloudEvents
    /\ loadUrl = NoParams
    /\ exchangeStarted = {}
    /\ requestsSent = 0
    /\ lastConnect = <<>>
    /\ tokensAtLoad = [k \in SessionKeys \ {VerifierKey} |-> Null]
    /\ uploads = {}
    /\ uploadsSent = 0
    /\ syncReturned = <<>>

\* a tab in which both providers were connected and the page was loaded
\* again on the plain URL: loadTokens found the tokens of both
InitCloudConnected(configs) ==
    /\ \E c \in configs : configured = [google |-> c[1], dropbox |-> c[2]]
    /\ \E a \in {"t1"}, r \in RefreshTokens \cup {Null}, d \in {"t2"} :
          session = [k \in SessionKeys |->
                        IF k = AccessKey("google") THEN a
                        ELSE IF k = RefreshKey THEN r
                        ELSE IF k = AccessKey("dropbox") THEN d
                        ELSE Null]
    /\ googleToken = session[AccessKey("google")]
    /\ googleRefreshToken = session[RefreshKey]
    /\ dropboxToken = session[AccessKey("dropbox")]
    /\ cloudUI = updateUI(googleToken, dropboxToken)
    /\ url = NoParams
    /\ pkce = {}
    /\ requests = {}
    /\ redirect = <<>>
    /\ cloudEventsLeft = MaxCloudEvents
    /\ loadUrl = NoParams
    /\ exchangeStarted = {}
    /\ requestsSent = 0
    /\ \E v \in {"v1"} :
          lastConnect = <<[provider |-> "dropbox", verifier |-> v,
                           challenge |-> generateCodeChallenge(v)]>>
    /\ tokensAtLoad = SessionTokens(session)
    /\ uploads = {}
    /\ uploadsSent = 0
    /\ syncReturned = <<>>

NextCloud ==
    \/ \E code \in Codes \cup {Null}, state \in CallbackStates, error \in CallbackErrors :
          PageLoad(code, state, error)
    \/ \E p \in Providers : Disconnect(p)
    \/ \E p \in Providers : ConnectNotConfigured(p)
    \/ \E p \in Providers, v \in Verifiers : ConnectStart(p, v)
    \/ ConnectRedirect
    \/ ConnectFails
    \/ \E a \in AccessTokens, r \in RefreshTokens \cup {Null} : TokenSucceeds(a, r)
    \/ TokenFails
    \/ \E p \in Providers : SyncClick(p)
    \/ \E o \in UploadOutcomes : UploadResponds(o)

-----------------------------------------------------------------------------
(* ui.js (theme) and settings.js *)

Themes == {"light", "dark"}

\* values of the other controls: the default, another value and, for the
\* text controls of font size and font family, the empty text
BgColors == {"#ffffff", "#000000"}
FontColors == {"#1a1a1a", "#ff0000"}
FontSizes == {"18", "20", ""}
FontFamilies == {"Verdana", "Georgia", ""}
LineHeights == {"1.6", "2"}
Widths == {"800", "600"}

\* the controls with a text value other than the theme, and their values
ValueControls == {"bgColor", "fontColor", "fontSize", "fontFamily", "lineHeight", "width"}

ValuesOf(name) ==
    CASE name = "bgColor" -> BgColors
      [] name = "fontColor" -> FontColors
      [] name = "fontSize" -> FontSizes
      [] name = "fontFamily" -> FontFamilies
      [] name = "lineHeight" -> LineHeights
      [] name = "width" -> Widths

\* Settings.defaults
SettingsDefaults ==
    [theme |-> "light", bgColor |-> "#ffffff", fontColor |-> "#1a1a1a", fontSize |-> "18",
     fontFamily |-> "Verdana", lineHeight |-> "1.6", width |-> "800",
     statistics |-> TRUE, scrollbar |-> TRUE]

\* the values of the nine controls as one record
ControlValues(theme, statistics, other) ==
    [theme |-> theme, bgColor |-> other.bgColor, fontColor |-> other.fontColor,
     fontSize |-> other.fontSize, fontFamily |-> other.fontFamily,
     lineHeight |-> other.lineHeight, width |-> other.width,
     statistics |-> statistics, scrollbar |-> other.scrollbar]

\* the part of a nine-control record the variable controls holds
OtherControls(c) ==
    [bgColor |-> c.bgColor, fontColor |-> c.fontColor, fontSize |-> c.fontSize,
     fontFamily |-> c.fontFamily, lineHeight |-> c.lineHeight, width |-> c.width,
     scrollbar |-> c.scrollbar]

\* the values the nine controls have now
Controls == ControlValues(themeSelect, statisticsChecked, controls)

\* toggleStatistics: the display of #status-stats
StatsDisplayOf(show) == IF show THEN "flex" ELSE "none"

\* Settings.saveSettings: the item written to localStorage 'editorSettings'
\* from the values c of the nine controls
saveSettings(c) ==
    <<[theme |-> c.theme, bgColor |-> c.bgColor, fontColor |-> c.fontColor,
       fontSize |-> c.fontSize, fontFamily |-> c.fontFamily, lineHeight |-> c.lineHeight,
       width |-> c.width, statistics |-> c.statistics, scrollbar |-> c.scrollbar]>>

\* settings.x || this.defaults.x on a text value: the empty text is falsy
OrDefault(value, default) == IF value = "" THEN default ELSE value

\* Settings.loadSettings: the values of the nine controls after it ran on
\* the item saved, the controls having the values current before
loadSettings(saved, current) ==
    IF saved = <<>>
    THEN current
    ELSE LET settings == saved[1]
         IN  [theme |-> OrDefault(settings.theme, SettingsDefaults.theme),
              bgColor |-> OrDefault(settings.bgColor, SettingsDefaults.bgColor),
              fontColor |-> OrDefault(settings.fontColor, SettingsDefaults.fontColor),
              fontSize |-> OrDefault(settings.fontSize, SettingsDefaults.fontSize),
              fontFamily |-> OrDefault(settings.fontFamily, SettingsDefaults.fontFamily),
              lineHeight |-> OrDefault(settings.lineHeight, SettingsDefaults.lineHeight),
              width |-> OrDefault(settings.width, SettingsDefaults.width),
              statistics |-> settings.statistics,
              scrollbar |-> settings.scrollbar]

\* what the theme handlers leave alone
ThemeFrame ==
    UNCHANGED <<content, stats, store, dbQueue, timers, saveDebounceTimer, typingVars,
                demoListener, saveStatus, download, eventsLeft, inputHist, dirty, lastDone,
                failedPending, pendingInput, seen, confirmed, alertBox, cloudVars>>

\* UI.setTheme
setTheme(theme) ==
    /\ dataTheme' = theme
    /\ lsTheme' = theme
    /\ rootDark' = (theme = "dark")

\* the keydown handler of UI.init: Cmd/Ctrl+K toggles the theme
ToggleThemeKey ==
    /\ themeEventsLeft > 0
    /\ themeEventsLeft' = themeEventsLeft - 1
    /\ LET newTheme == IF dataTheme = "light" THEN "dark" ELSE "light"
       IN  /\ setTheme(newTheme)
           /\ chosenTheme' = newTheme
    /\ prevSettings' = editorSettings
    /\ last' = Did("ToggleThemeKey")
    /\ UNCHANGED <<themeSelect, statisticsChecked, controls, statsDisplay, editorSettings>>
    /\ ThemeFrame

\* a page load: UI.init applies localStorage 'theme' with setTheme, then
\* the Settings constructor runs loadSettings and applyAllSettings, whose
\* updateTheme sets data-theme from the control and saves the settings
UiLoad ==
    /\ themeEventsLeft > 0
    /\ themeEventsLeft' = themeEventsLeft - 1
    /\ LET savedTheme == IF lsTheme # Null THEN lsTheme ELSE "light"
           loaded == loadSettings(editorSettings, SettingsDefaults)
       IN  /\ lsTheme' = savedTheme
           /\ rootDark' = (savedTheme = "dark")
           /\ themeSelect' = loaded.theme
           /\ statisticsChecked' = loaded.statistics
           /\ controls' = OtherControls(loaded)
           /\ dataTheme' = themeSelect'
           /\ statsDisplay' = StatsDisplayOf(statisticsChecked')
           /\ editorSettings' = saveSettings(loaded)
    /\ prevSettings' = editorSettings
    /\ last' = Did("UiLoad")
    /\ UNCHANGED chosenTheme
    /\ ThemeFrame

\* the change handler of #setting-theme: Settings.updateTheme
ChangeThemeSetting(theme) ==
    /\ themeEventsLeft > 0
    /\ theme # themeSelect
    /\ themeEventsLeft' = themeEventsLeft - 1
    /\ themeSelect' = theme
    /\ dataTheme' = theme
    /\ editorSettings' = saveSettings(ControlValues(theme, statisticsChecked, controls))
    /\ chosenTheme' = theme
    /\ prevSettings' = editorSettings
    /\ last' = Did("ChangeThemeSetting")
    /\ UNCHANGED <<rootDark, lsTheme, statisticsChecked, controls, statsDisplay>>
    /\ ThemeFrame

\* the change handler of #setting-statistics: Settings.toggleStatistics
ChangeStatisticsSetting ==
    /\ themeEventsLeft > 0
    /\ themeEventsLeft' = themeEventsLeft - 1
    /\ statisticsChecked' = ~statisticsChecked
    /\ statsDisplay' = StatsDisplayOf(statisticsChecked')
    /\ editorSettings' = saveSettings(ControlValues(themeSelect, statisticsChecked', controls))
    /\ prevSettings' = editorSettings
    /\ last' = Did("ChangeStatisticsSetting")
    /\ UNCHANGED <<dataTheme, rootDark, lsTheme, themeSelect, controls, chosenTheme>>
    /\ ThemeFrame

\* the input or change handler of a colour, font, line height or width
\* control: updateBackgroundColor, updateFontColor, updateFontSize,
\* updateFontFamily, updateLineHeight, updateWidth (their effect on the
\* editor's style is not part of the state)
ChangeValueSetting(name, value) ==
    /\ themeEventsLeft > 0
    /\ value # controls[name]
    /\ themeEventsLeft' = themeEventsLeft - 1
    /\ controls' = [controls EXCEPT ![name] = value]
    /\ editorSettings' = saveSettings(ControlValues(themeSelect, statisticsChecked, controls'))
    /\ prevSettings' = editorSettings
    /\ last' = Did("ChangeValueSetting")
    /\ UNCHANGED <<dataTheme, rootDark, lsTheme, themeSelect, statisticsChecked, statsDisplay,
                   chosenTheme>>
    /\ ThemeFrame

\* the change handler of #setting-scrollbar: Settings.toggleScrollbar
ChangeScrollbarSetting ==
    /\ themeEventsLeft > 0
    /\ themeEventsLeft' = themeEventsLeft - 1
    /\ controls' = [controls EXCEPT !.scrollbar = ~controls.scrollbar]
    /\ editorSettings' = saveSettings(ControlValues(themeSelect, statisticsChecked, controls'))
    /\ prevSettings' = editorSettings
    /\ last' = Did("ChangeScrollbarSetting")
    /\ UNCHANGED <<dataTheme, rootDark, lsTheme, themeSelect, statisticsChecked, statsDisplay,
                   chosenTheme>>
    /\ ThemeFrame

\* a restore that resets the controls and does not save them
RestoreDefaultsNoSave(ok) ==
    /\ themeEventsLeft > 0
    /\ themeEventsLeft' = themeEventsLeft - 1
    /\ prevSettings' = editorSettings
    /\ IF ok
       THEN /\ themeSelect' = SettingsDefaults.theme
            /\ statisticsChecked' = SettingsDefaults.statistics
            /\ controls' = OtherControls(SettingsDefaults)
            /\ dataTheme' = themeSelect'
            /\ statsDisplay' = StatsDisplayOf(statisticsChecked')
            /\ chosenTheme' = themeSelect'
            /\ last' = Did("RestoreDefaults")
            /\ UNCHANGED <<rootDark, lsTheme, editorSettings>>
       ELSE /\ last' = Did("RestoreDeclined")
            /\ UNCHANGED <<dataTheme, rootDark, lsTheme, themeSelect, statisticsChecked,
                           controls, statsDisplay, editorSettings, chosenTheme>>
    /\ ThemeFrame

\* Settings.restoreDefaults, the confirm dialog answered ok or not: when
\* confirmed the nine controls take the defaults, applyAllSettings applies
\* them and saveSettings saves them
RestoreDefaults(ok) ==
    /\ themeEventsLeft > 0
    /\ themeEventsLeft' = themeEventsLeft - 1
    /\ prevSettings' = editorSettings
    /\ IF ok
       THEN /\ themeSelect' = SettingsDefaults.theme
            /\ statisticsChecked' = SettingsDefaults.statistics
            /\ controls' = OtherControls(SettingsDefaults)
            /\ dataTheme' = themeSelect'
            /\ statsDisplay' = StatsDisplayOf(statisticsChecked')
            /\ editorSettings' =
                  saveSettings(ControlValues(themeSelect', statisticsChecked', controls'))
            /\ chosenTheme' = themeSelect'
            /\ last' = Did("RestoreDefaults")
            /\ UNCHANGED <<rootDark, lsTheme>>
       ELSE /\ last' = Did("RestoreDeclined")
            /\ UNCHANGED <<dataTheme, rootDark, lsTheme, themeSelect, statisticsChecked,
                           controls, statsDisplay, editorSettings, chosenTheme>>
    /\ ThemeFrame

\* the page as first loaded in a fresh profile: UI.init stored 'light',
\* the Settings constructor applied and saved the defaults
InitTheme ==
    /\ dataTheme = SettingsDefaults.theme
    /\ rootDark = FALSE
    /\ lsTheme = "light"
    /\ themeSelect = SettingsDefaults.theme
    /\ statisticsChecked = SettingsDefaults.statistics
    /\ controls = OtherControls(SettingsDefaults)
    /\ statsDisplay = StatsDisplayOf(SettingsDefaults.statistics)
    /\ editorSettings = saveSettings(SettingsDefaults)
    /\ prevSettings = editorSettings
    /\ themeEventsLeft = MaxThemeEvents
    /\ chosenTheme = Null

NextTheme ==
    \/ ToggleThemeKey
    \/ \E t \in Themes : ChangeThemeSetting(t)
    \/ ChangeStatisticsSetting
    \/ \E name \in ValueControls : \E value \in ValuesOf(name) : ChangeValueSetting(name, value)
    \/ ChangeScrollbarSetting
    \/ \E ok \in BOOLEAN : RestoreDefaults(ok)
    \/ UiLoad

-----------------------------------------------------------------------------
(* the state once Editor.init has run: the stored document, if it is not
   empty, is in the editor; otherwise the demo is, and the timer that adds
   its once-listener is pending *)

InitEditor(docs) ==
    /\ \E c \in docs :
          /\ store \in {{}, {SaveRecord(c)}}
          /\ content = (IF StorageLoad(store) # <<>> THEN StorageLoad(store) ELSE DemoHtml)
    /\ stats = (IF StorageLoad(store) # <<>>
                THEN updateStats(getTextContent(content))
                ELSE [lines |-> 1, words |-> 0, chars |-> 0])
    /\ dbQueue = <<>>
    /\ timers = (IF StorageLoad(store) # <<>> THEN {}
                 ELSE {[id |-> 1, kind |-> "demo", left |-> DemoDelay]})
    /\ saveDebounceTimer = 0
    /\ typingTimer = 0
    /\ isTyping = FALSE
    /\ typingClass = FALSE
    /\ demoListener = (IF StorageLoad(store) # <<>> THEN "none" ELSE "waiting")
    /\ saveStatus = ClearedLabel
    /\ confirmed = <<>>
    /\ alertBox = NoAlert
    /\ download = NoFile
    /\ eventsLeft = MaxEvents
    /\ sinceInput = ClockCap
    /\ unsavedFor = 0
    /\ dirty = FALSE
    /\ lastDone = (IF store = {} THEN [kind |-> "none", content |-> <<>>]
                   ELSE [kind |-> "save", content |-> StorageLoad(store)])
    /\ failedPending = FALSE
    /\ firedSinceInput = 0
    /\ burstLen = 0
    /\ pendingInput = FALSE
    /\ seen = {content}
    /\ last = [act |-> "init", afterFailure |-> FALSE, err |-> ""]

Init == InitEditor(EditorDocs \cup {<<>>}) /\ InitCloud({<<TRUE, TRUE>>}) /\ InitTheme

TimerFires ==
    \/ FireSaveTimer
    \/ FireTypingTimer
    \/ FireDemoTimer
    \/ FireStatusTimer

Next ==
    \/ \E c \in InputDocs : HandleInput(c)
    \/ HandleBlur
    \/ TimerFires
    \/ \E d \in Durations : Advance(d)
    \/ SaveSucceeds
    \/ \E err \in StorageErrors : SaveFails(err)
    \/ ClearSucceeds
    \/ ClearFails
    \/ NewDocument
    \/ DeleteDocument
    \/ ClearData

Spec == Init /\ [][Next]_vars

\* the run in which storage writes succeed, timers fire and requests complete
NextLive ==
    \/ \E c \in InputDocs : HandleInput(c)
    \/ HandleBlur
    \/ TimerFires
    \/ \E d \in Durations : Advance(d)
    \/ SaveSucceeds
    \/ ClearSucceeds
    \/ NewDocument
    \/ DeleteDocument
    \/ ClearData

LiveSpec ==
    /\ Init
    /\ [][NextLive]_vars
    /\ WF_vars(TimerFires)
    /\ WF_vars(\E d \in Durations : Advance(d))
    /\ WF_vars(SaveSucceeds)
    /\ WF_vars(ClearSucceeds)

\* the export dialog: documents of every shape are exported
InitExport == InitEditor(HtmlDocs \cup ParagraphDocs) /\ InitCloud({<<TRUE, TRUE>>}) /\ InitTheme

NextExport ==
    \/ ExportTxt
    \/ FireRevokeTimer
    \/ FireStatusTimer
    \/ FireDemoTimer
    \/ \E d \in Durations : Advance(d)

SpecExport == InitExport /\ [][NextExport]_vars

InitCloudSpec ==
    /\ InitEditor({<<"a">>})
    /\ store # {}
    /\ InitCloud(BOOLEAN \X BOOLEAN)
    /\ InitTheme

SpecCloud == InitCloudSpec /\ [][NextCloud]_vars

InitConnectedSpec ==
    /\ InitEditor({<<"a">>})
    /\ store # {}
    /\ InitCloudConnected({<<TRUE, TRUE>>, <<TRUE, FALSE>>})
    /\ InitTheme

SpecConnected == InitConnectedSpec /\ [][NextCloud]_vars

InitThemeSpec ==
    /\ InitEditor({<<"a">>})
    /\ store # {}
    /\ InitCloud({<<TRUE, TRUE>>})
    /\ InitTheme

SpecTheme == InitThemeSpec /\ [][NextTheme]_vars

-----------------------------------------------------------------------------
(* Storage *)

\* C1: after any sequence of Storage.save and Storage.clear calls the
\* 'documents' store holds at most one record, and a record it holds has the
\* fixed key 'current-document'
C1_OneRecord ==
    /\ Cardinality(store) <= 1
    /\ \A r \in store : r.id = "current-document"

C1_Witness ==
    /\ last.act = "SaveSucceeds"
    /\ Cardinality(store) = 1
    /\ eventsLeft = 0

\* C2: Storage.load returns the content passed to the most recent completed
\* Storage.save, and the empty string when nothing was ever saved or a
\* Storage.clear completed after the last save
C2_LoadReturnsLastSave ==
    StorageLoad(store) = (IF lastDone.kind = "save" THEN lastDone.content ELSE <<>>)

C2_Witness ==
    /\ last.act = "SaveSucceeds"
    /\ lastDone.kind = "save"
    /\ lastDone.content # <<>>
    /\ StorageLoad(store) = lastDone.content
    /\ StorageLoad(store) # content

-----------------------------------------------------------------------------
(* Auto-save *)

\* C3: the auto-save is debounced with the fixed 500 ms delay: at most one
\* save timer is pending, it is the one the last input started and it is due
\* 500 ms after that input; a timer-triggered save fires 500 ms after the
\* last input of its burst, and a burst causes exactly one
C3_Debounce ==
    /\ SaveDebounceDelay = 500
    /\ Cardinality(SaveTimers(timers)) <= 1
    /\ \A t \in SaveTimers(timers) :
          /\ t.id = saveDebounceTimer
          /\ t.left = SaveDebounceDelay - sinceInput
          /\ firedSinceInput = 0
    /\ last.act = "SaveTimer" => sinceInput = SaveDebounceDelay
    /\ (saveDebounceTimer # 0 /\ SaveTimers(timers) = {}) => firedSinceInput = 1

C3_Witness ==
    /\ last.act = "SaveTimer"
    /\ burstLen >= 2
    /\ firedSinceInput = 1

C5_NoEditLost == pendingInput ~> ~pendingInput

C5_Witness ==
    /\ last.act = "SaveSucceeds"
    /\ ~pendingInput
    /\ saveDebounceTimer # 0
    /\ firedSinceInput = 1

-----------------------------------------------------------------------------
(* Failure of a save *)

\* C6, as claimed: after a failed save no further save is attempted until
\* the next input or blur event
C6_NoSaveAfterFailure == ~(last.act = "SaveTimer" /\ last.afterFailure)

\* C6, amended: the catch block of Editor.save shows 'Save failed' with the
\* error class, alerts exactly for QuotaExceededError, leaves the editor's
\* content alone, starts no timer and issues no save; a save is issued only
\* by the blur listener or by the debounce timer an input started
C6_FailureHandled ==
    [][ /\ last'.act = "SaveFails" =>
            /\ saveStatus' = [text |-> "Save failed", cls |-> "status-item error"]
            /\ (alertBox' # alertBox) <=> (last'.err = "QuotaExceededError")
            /\ content' = content
            /\ timers' = timers
            /\ saveDebounceTimer' = saveDebounceTimer
            /\ dbQueue' = Tail(dbQueue)
        /\ Len(dbQueue') > Len(dbQueue) /\ dbQueue'[Len(dbQueue')].op = "save" =>
            last'.act \in {"Blur", "SaveTimer"}
      ]_vars

C6_Witness ==
    /\ last.act = "SaveFails"
    /\ last.err = "QuotaExceededError"
    /\ alertBox.msg # ""
    /\ saveStatus.text = "Save failed"
    /\ SaveTimers(timers) # {}

-----------------------------------------------------------------------------
(* Export as TXT *)

\* the HTML with every tag removed and every <br> replaced by one newline,
\* the rest as it stands
RECURSIVE TagStrip(_)
TagStrip(html) ==
    IF html = <<>> THEN <<>>
    ELSE (IF Head(html) \in BrPlain \cup BrAttr THEN <<"\n">>
          ELSE IF IsTag(Head(html)) THEN <<>>
          ELSE <<Head(html)>>) \o TagStrip(Tail(html))

\* the text of the HTML: tags removed, character references decoded, a <br>
\* without attributes a newline, a <br> with attributes removed like a tag
RECURSIVE TextOfHtml(_)
TextOfHtml(html) ==
    IF html = <<>> THEN <<>>
    ELSE (IF Head(html) \in {"<br>", "<br/>"} THEN <<"\n">>
          ELSE IF Head(html) \in {"<br class=x>", "<div>", "</div>"} THEN <<>>
          ELSE IF Head(html) = "&amp;" THEN <<"&">>
          ELSE <<Head(html)>>) \o TextOfHtml(Tail(html))

-----------------------------------------------------------------------------
(* OAuth with PKCE *)

\* the S256 challenge of a verifier
S256(verifier) == "S256(" \o verifier \o ")"

\* C8: a connect step stores the verifier it generated and redirects with
\* the challenge derived from that same verifier; a token request exists
\* only on a page loaded with a code, carries that code, and carries the
\* verifier the last connect step stored
C8_PkceOrder ==
    /\ redirect # <<>> =>
          /\ lastConnect # <<>>
          /\ session[VerifierKey] = lastConnect[1].verifier
          /\ redirect[1].challenge = S256(session[VerifierKey])
          /\ redirect[1].state = redirect[1].provider
    /\ \A r \in requests :
          /\ loadUrl.code # Null
          /\ r.code = loadUrl.code
          /\ lastConnect # <<>>
          /\ last.act = "PageLoad" =>
                /\ r.verifier = lastConnect[1].verifier
                /\ S256(r.verifier) = lastConnect[1].challenge

C8_Witness ==
    /\ last.act = "PageLoad"
    /\ requests # {}
    /\ lastConnect # <<>>
    /\ \A r \in requests : r.verifier = lastConnect[1].verifier

\* C9: on a callback with a code, only the exchange of the provider the
\* state parameter names is started (and it is started when the URL has no
\* error parameter); with any other state no exchange is started and the
\* page load changes no token
C9_StateSelectsProvider ==
    /\ exchangeStarted \subseteq ({loadUrl.state} \cap Providers)
    /\ \A r \in requests : r.provider = loadUrl.state
    /\ (loadUrl.code # Null /\ loadUrl.error = Null /\ loadUrl.state \in Providers)
          => exchangeStarted = {loadUrl.state}
    /\ (last.act = "PageLoad" /\ loadUrl.code # Null /\ loadUrl.state \notin Providers) =>
          /\ exchangeStarted = {}
          /\ requests = {}
          /\ SessionTokens(session) = tokensAtLoad
          /\ googleToken = session[AccessKey("google")]
          /\ dropboxToken = session[AccessKey("dropbox")]

C9_Witness ==
    /\ last.act = "PageLoad"
    /\ loadUrl.code # Null
    /\ loadUrl.state = "other"
    /\ loadUrl.error = Null
    /\ session[VerifierKey] # Null
    /\ googleToken # Null

\* C10: a page load sends at most one token request; the failure of a
\* token exchange shows an alert, removes the parameters from the URL,
\* sends no request and leaves the tokens in memory and in sessionStorage
\* as they were
C10_FailureNotRetried ==
    [][ /\ requestsSent' <= 1
        /\ Cardinality(requests') <= 1
        /\ last'.act = "TokenFails" =>
              /\ alertBox'.n # alertBox.n
              /\ alertBox'.msg \in {"Failed to connect to " \o ProviderName(p) : p \in Providers}
              /\ url' = NoParams
              /\ requests' = {}
              /\ requestsSent' = requestsSent
              /\ session' = session
              /\ <<googleToken, googleRefreshToken, dropboxToken>>'
                    = <<googleToken, googleRefreshToken, dropboxToken>>
              /\ TokenOf("google") = session[AccessKey("google")]
              /\ TokenOf("dropbox") = session[AccessKey("dropbox")] ]_vars

C10_Witness ==
    /\ last.act = "TokenFails"
    /\ loadUrl.state = "dropbox"
    /\ dropboxToken # Null
    /\ url = NoParams

\* C11: each provider's dialog shows one of two cases, and it shows
\* 'Connected' with the Sync button visible exactly when the token in
\* memory is set, which is exactly when sessionStorage holds the
\* provider's access-token key
C11_ViewsAgree ==
    \A p \in Providers :
        /\ cloudUI[p] \in
              { [connect |-> "Disconnect", sync |-> "inline-block", status |-> "Connected",
                 cls |-> "cloud-status connected"],
                [connect |-> "Connect", sync |-> "none", status |-> "Not connected",
                 cls |-> "cloud-status"] }
        /\ (cloudUI[p].status = "Connected" /\ cloudUI[p].sync = "inline-block")
              <=> (TokenOf(p) # Null)
        /\ (TokenOf(p) # Null) <=> (session[AccessKey(p)] # Null)
        /\ TokenOf(p) = session[AccessKey(p)]

C11_Witness ==
    /\ last.act = "Disconnect"
    /\ tokensAtLoad[AccessKey("dropbox")] = Null
    /\ loadUrl.state = "dropbox"
    /\ requestsSent = 1
    /\ requests = {}
    /\ dropboxToken = Null
    /\ session[AccessKey("dropbox")] = Null
    /\ cloudUI["dropbox"].status = "Not connected"

\* C12: a page load whose URL has an error parameter shows the alert,
\* removes the parameters from the URL, starts no token exchange and
\* changes nothing in sessionStorage, with or without code and state
C12_ErrorCallback ==
    [][ (last'.act = "PageLoad" /\ loadUrl'.error # Null) =>
            /\ alertBox'.n # alertBox.n
            /\ alertBox'.msg = "OAuth error: " \o loadUrl'.error
            /\ url' = [code |-> Null, state |-> Null, error |-> Null]
            /\ exchangeStarted' = {}
            /\ requests' = {}
            /\ requestsSent' = 0
            /\ session' = session
            /\ googleToken' = session[AccessKey("google")]
            /\ googleRefreshToken' = session[RefreshKey]
            /\ dropboxToken' = session[AccessKey("dropbox")] ]_vars

C12_Witness ==
    /\ last.act = "PageLoad"
    /\ loadUrl.error # Null
    /\ loadUrl.code # Null
    /\ loadUrl.state = "google"
    /\ session[VerifierKey] # Null
    /\ dropboxToken # Null

-----------------------------------------------------------------------------
(* Theme *)

\* C13: after a reload the theme applied to the app container is the
\* theme the user chose last, with the key or with the Settings control
C13_ThemePersists ==
    (last.act = "UiLoad" /\ chosenTheme # Null) => dataTheme = chosenTheme

-----------------------------------------------------------------------------
(* New, Delete, Clear all data *)

\* no save timer is pending and no storage request is in flight
Quiet == SaveTimers(timers) = {} /\ dbQueue = <<>>

\* the dialog op was confirmed on the user's document (not the demo text)
ConfirmedDoc(op) ==
    /\ confirmed # <<>>
    /\ confirmed[1].op = op
    /\ confirmed[1].content \notin {<<>>, DemoHtml}

\* C14: after New is confirmed and the pending save timer and requests
\* have run, the store holds the content the editor had at confirmation
C14_NewSavesContent ==
    (ConfirmedDoc("new") /\ Quiet)
        => StorageLoad(store) = confirmed[1].content

\* C15: after Delete is confirmed the store does not hold the deleted
\* content, and a page load does not put it back into the editor
C15_DeleteNotUndone ==
    (ConfirmedDoc("delete") /\ Quiet)
        => /\ StorageLoad(store) # confirmed[1].content
           /\ store # {} => loadContent(store) # confirmed[1].content

\* C16: after Clear all data is confirmed and the clear has finished, no
\* record of the store carries the content the editor had at confirmation
C16_ClearDeletes ==
    (ConfirmedDoc("cleared") /\ Quiet)
        => \A r \in store :
              \/ r.content = <<>>
              \/ r.content # confirmed[1].content

-----------------------------------------------------------------------------
(* Writing metrics *)

WordsPerMinute == 200

\* the reading time in minutes of a text of the given number of words
ReadingTime(words) == (words + WordsPerMinute - 1) \div WordsPerMinute

\* C17: after an input event, with the save still to come, the status bar
\* shows the word count of the editor's text and the reading time of
\* that many words at 200 words per minute
C17_MetricsOnInput ==
    last.act = "Input" =>
        /\ SaveTimers(timers) # {}
        /\ stats.words = countWords(getTextContent(content))
        /\ "readingTime" \in DOMAIN stats
        /\ stats.readingTime = ReadingTime(stats.words)

-----------------------------------------------------------------------------
(* Cloud sync: configuration, upload, single use of the verifier *)

\* C18: no verifier is generated or stored and no redirect is issued for
\* a provider that is not configured, and the Connect click that finds
\* it not configured shows the alert and changes nothing else
C18_NotConfigured ==
    [][ /\ \A x \in pkce' : configured[x.provider]
        /\ redirect' # <<>> => configured[redirect'[1].provider]
        /\ session'[VerifierKey] # session[VerifierKey] =>
              \/ session'[VerifierKey] = Null
              \/ lastConnect' # <<>> /\ configured[lastConnect'[1].provider]
        /\ last'.act = "ConnectNotConfigured" =>
              /\ alertBox'.n # alertBox.n
              /\ alertBox'.msg \in {ProviderName(p) \o " OAuth is not configured." :
                                     p \in {q \in Providers : ~configured[q]}}
              /\ pkce' = pkce
              /\ session' = session
              /\ redirect' = redirect
              /\ requests' = requests
              /\ cloudUI' = cloudUI
              /\ url' = url
              /\ <<googleToken, googleRefreshToken, dropboxToken>>'
                    = <<googleToken, googleRefreshToken, dropboxToken>> ]_vars

C18_Witness ==
    /\ last.act = "ConnectNotConfigured"
    /\ ~configured["dropbox"]
    /\ configured["google"]
    /\ alertBox.msg = "Dropbox OAuth is not configured."
    /\ session[VerifierKey] # Null
    /\ redirect # <<>>

\* C19: an upload request is sent only by a click on Sync, one per
\* click, for a provider whose token is set and with that token; a sync
\* without a token sends nothing and returns false; a sync that uploaded
\* returns true exactly when the response is ok
C19_SyncManual ==
    [][ /\ uploads' \ uploads # {} =>
              /\ last'.act = "SyncClick"
              /\ Cardinality(uploads' \ uploads) = 1
              /\ uploadsSent' = uploadsSent + 1
              /\ \A u \in uploads' \ uploads :
                    /\ TokenOf(u.provider) # Null
                    /\ u.token = TokenOf(u.provider)
        /\ last'.act = "SyncClick" =>
              \/ /\ uploads' \ uploads # {}
                 /\ uploads \subseteq uploads'
                 /\ syncReturned' = syncReturned
              \/ /\ uploads' = uploads
                 /\ uploadsSent' = uploadsSent
                 /\ syncReturned' # <<>>
                 /\ ~syncReturned'[1].result
                 /\ syncReturned'[1].response = "none"
                 /\ TokenOf(syncReturned'[1].provider) = Null
        /\ last'.act = "UploadResponds" =>
              /\ uploads' \subseteq uploads
              /\ Cardinality(uploads') = Cardinality(uploads) - 1
              /\ uploadsSent' = uploadsSent
              /\ syncReturned'[1].result <=> (syncReturned'[1].response = "ok")
              /\ \E u \in uploads \ uploads' : syncReturned'[1].provider = u.provider ]_vars

C19_Witness ==
    /\ last.act = "UploadResponds"
    /\ syncReturned # <<>>
    /\ syncReturned[1].result
    /\ syncReturned[1].provider = "google"
    /\ uploadsSent = 1
    /\ googleToken # Null

\* C20: a callback that starts an exchange removes the verifier, so
\* until a connect step stores a new one none is found: the next callback
\* shows 'OAuth session expired', cleans the URL and sends no token
\* request
C20_VerifierSingleUse ==
    [][ /\ (exchangeStarted' # {} /\ redirect' = <<>>) => session'[VerifierKey] = Null
        /\ ( /\ last'.act = "PageLoad"
             /\ exchangeStarted' # {}
             /\ session[VerifierKey] = Null ) =>
                /\ alertBox'.n # alertBox.n
                /\ alertBox'.msg = "OAuth session expired. Please try again."
                /\ url' = [code |-> Null, state |-> Null, error |-> Null]
                /\ requests' = {}
                /\ requestsSent' = 0
                /\ session' = session
        /\ ( /\ last'.act = "PageLoad"
             /\ exchangeStarted' # {}
             /\ session[VerifierKey] # Null ) =>
                /\ requestsSent' = 1
                /\ \A r \in requests' : r.verifier = session[VerifierKey] ]_vars

C20_Witness ==
    /\ last.act = "PageLoad"
    /\ exchangeStarted = {"google"}
    /\ lastConnect # <<>>
    /\ lastConnect[1].provider = "google"
    /\ alertBox.msg = "OAuth session expired. Please try again."
    /\ url = NoParams
    /\ requests = {}
    /\ tokensAtLoad[AccessKey("google")] = Null

\* C21: a Connect click on a connected provider removes that provider's
\* tokens from memory and from sessionStorage (for Google also the
\* refresh token) and shows it not connected; no verifier is generated
\* or stored, no redirect is issued and no request is sent; the other
\* provider's token, sessionStorage item and dialog stay as they were
C21_DisconnectOnly ==
    [][ last'.act = "Disconnect" =>
          \E p \in Providers :
             LET o == CHOOSE q \in Providers : q # p
             IN  /\ TokenOf(p) # Null
                 /\ session'[AccessKey(p)] = Null
                 /\ (IF p = "google" THEN googleToken' ELSE dropboxToken') = Null
                 /\ p = "google" =>
                       /\ googleRefreshToken' = Null
                       /\ session'[RefreshKey] = Null
                 /\ p = "dropbox" =>
                       /\ googleRefreshToken' = googleRefreshToken
                       /\ session'[RefreshKey] = session[RefreshKey]
                 /\ cloudUI'[p].status = "Not connected"
                 /\ cloudUI'[p].sync = "none"
                 /\ session'[AccessKey(o)] = session[AccessKey(o)]
                 /\ (IF o = "google" THEN googleToken' ELSE dropboxToken') = TokenOf(o)
                 /\ cloudUI'[o] = cloudUI[o]
                 /\ session'[VerifierKey] = session[VerifierKey]
                 /\ pkce' = pkce
                 /\ redirect' = redirect
                 /\ requests' = requests
                 /\ uploads' = uploads
                 /\ url' = url
                 /\ alertBox' = alertBox ]_vars

C21_Witness ==
    /\ last.act = "Disconnect"
    /\ googleToken = Null
    /\ session[AccessKey("google")] = Null
    /\ session[RefreshKey] = Null
    /\ tokensAtLoad[RefreshKey] # Null
    /\ tokensAtLoad[AccessKey("google")] # Null
    /\ dropboxToken # Null
    /\ cloudUI["dropbox"].status = "Connected"
    /\ cloudUI["google"].status = "Not connected"

-----------------------------------------------------------------------------
(* Settings *)

\* C22: whatever values the nine settings controls have, loadSettings run
\* on what saveSettings wrote leaves every control with the value it had
C22_RoundTrip ==
    loadSettings(saveSettings(Controls), SettingsDefaults) = Controls

\* C23: a confirmed Restore defaults leaves all nine controls and the
\* persisted 'editorSettings' item equal to the defaults; a declined one
\* changes no control and not the persisted item
C23_RestoreAllOrNothing ==
    [][ /\ last'.act = "RestoreDefaults" =>
              /\ Controls' = SettingsDefaults
              /\ editorSettings' = <<SettingsDefaults>>
        /\ last'.act = "RestoreDeclined" =>
              /\ Controls' = Controls
              /\ editorSettings' = editorSettings
              /\ lsTheme' = lsTheme
              /\ dataTheme' = dataTheme
              /\ statsDisplay' = statsDisplay ]_vars

C23_Witness ==
    /\ last.act = "RestoreDefaults"
    /\ prevSettings # <<>>
    /\ prevSettings[1].theme = "dark"
    /\ prevSettings[1].fontFamily = "Georgia"
    /\ prevSettings[1].scrollbar = FALSE
    /\ Controls = SettingsDefaults
    /\ editorSettings = <<SettingsDefaults>>

-----------------------------------------------------------------------------
(* The typing indicator *)

TypingTimers(ts) == { t \in ts : t.kind = "typing" }

\* C24: in every state the editor carries the 'typing' class exactly when
\* isTyping is true, which is exactly when a typing timer is pending; the
\* pending timer is the one of the last input event and comes due 1000 ms
\* after it, so the class is removed 1000 ms after the last input event
\* and not earlier
C24_TypingIndicator ==
    /\ typingClass = isTyping
    /\ isTyping = (TypingTimers(timers) # {})
    /\ \A t \in TypingTimers(timers) :
          /\ t.id = typingTimer
          /\ t.left = 1000 - sinceInput
    /\ last.act = "TypingTimer" => (~typingClass /\ sinceInput = 1000)
    /\ (last.act = "Input" \/ sinceInput < 1000) => typingClass

C24_Witness ==
    /\ last.act = "TypingTimer"
    /\ burstLen = 2
    /\ sinceInput = 1000
    /\ ~typingClass
    /\ ~isTyping
    /\ TypingTimers(timers) = {}

-----------------------------------------------------------------------------
(* Line breaks in the exported text *)

\* the number of maximal runs of elements of seq outside breaks: the lines
\* that carry text, when breaks are what separates lines
RECURSIVE Runs(_, _, _)
Runs(seq, breaks, inRun) ==
    IF seq = <<>> THEN 0
    ELSE IF Head(seq) \in breaks THEN Runs(Tail(seq), breaks, FALSE)
    ELSE (IF inRun THEN 0 ELSE 1) + Runs(Tail(seq), breaks, TRUE)

\* what puts two pieces of text of the editor on different lines: a <br>,
\* or the boundary of a block
LineBoundaries == {"<br>", "<br/>", "<br class=x>", "<div>", "</div>"}

\* C25: pieces of text that are on different lines in the editor, separated
\* by a <br> or by a block boundary, are separated by at least one newline
\* in the exported text: the export has as many lines of text as the editor
C25_LineBreaksKept ==
    last.act = "ExportTxt"
        => Runs(download, {"\n"}, FALSE) = Runs(content, LineBoundaries, FALSE)

-----------------------------------------------------------------------------
(* The status label *)

\* C26: an error message stays, with the error class, until the next
\* updateSaveStatus call: no timer clears it; and a success message is
\* cleared by its own timer, 2000 ms after it was shown, which is the
\* youngest of the status timers: none is still running when it is cleared
C26_ErrorStays ==
    [][ last'.act = "StatusTimer" =>
          /\ saveStatus.cls = "status-item error" => saveStatus' = saveStatus
          /\ saveStatus.cls = "status-item success" =>
                \A t \in timers' : t.kind = "status" => t.left = 0 ]_vars

====
